---------------------------- MODULE Spec2Model ----------------------------
(***************************************************************************)
(* The daily capital-allocation engine of the Bitcoin accumulation         *)
(* dashboard: the Dip-Boost allocator (dashboard/model/strategy_new.py)    *)
(* and the Strategic/Tactical allocator (dashboard/model/strategy_gt.py).  *)
(*                                                                         *)
(* Numbers.  The source computes in IEEE doubles.  Here a real number is   *)
(* an exact rational [n, d] in lowest terms wherever the source uses only  *)
(* + - * / (the weight buffers, the means, the variances, the drain).      *)
(* Square roots are irrational: a z-score (x - mean)/std is carried on the *)
(* grid of 1/ZScale, its magnitude rounded up, the way a double carries it *)
(* on a grid of 2^-52.  exp and the Beta densities of the                  *)
(* Strategic/Tactical allocator are carried in fixed point with Scale      *)
(* units per 1.0.  NaN is the record 0/0.                                    *)
(*                                                                         *)
(* Arrays and Series are functions over 0..n-1, as in the source.          *)
(***************************************************************************)
EXTENDS Integers, Sequences, FiniteSets, TLC

(***************************************************************************)
(* Bounds of the model.                                                    *)
(***************************************************************************)
MaxDays == 5
MaxPrice == 2
ZScale == 4
Scale == 1000
MaxRawLen == 3
GTMaxDays == 50

(***************************************************************************)
(* Rational arithmetic.                                                    *)
(***************************************************************************)
Abs(x) == IF x < 0 THEN -x ELSE x

Max(a, b) == IF a >= b THEN a ELSE b

Min(a, b) == IF a <= b THEN a ELSE b

\* Euclid, two steps at a time.
RECURSIVE GCD(_, _)
GCD(a, b) ==
    IF b = 0 THEN a
    ELSE LET r == a % b IN IF r = 0 THEN b ELSE GCD(r, b % r)

Q(n, d) ==
    LET s == IF d < 0 THEN -1 ELSE 1
        g == GCD(Abs(n), Abs(d))
    IN  [n |-> (s * n) \div g, d |-> (s * d) \div g]

Zero == [n |-> 0, d |-> 1]

One == [n |-> 1, d |-> 1]

RInt(k) == [n |-> k, d |-> 1]

NaN == [n |-> 0, d |-> 0]

IsNaN(x) == x.d = 0

RNeg(a) == [n |-> -a.n, d |-> a.d]

RAdd(a, b) ==
    IF a.d = b.d THEN Q(a.n + b.n, a.d)
    ELSE LET g == GCD(a.d, b.d)
         IN  Q(a.n * (b.d \div g) + b.n * (a.d \div g), (a.d \div g) * b.d)

RSub(a, b) == RAdd(a, RNeg(b))

RMul(a, b) ==
    IF a.n = 0 \/ b.n = 0 THEN Zero
    ELSE LET g1 == GCD(Abs(a.n), b.d)
             g2 == GCD(Abs(b.n), a.d)
         IN  [n |-> (a.n \div g1) * (b.n \div g2), d |-> (a.d \div g2) * (b.d \div g1)]

RInv(a) == IF a.n < 0 THEN [n |-> -a.d, d |-> -a.n] ELSE [n |-> a.d, d |-> a.n]

RDiv(a, b) == RMul(a, RInv(b))

RAbs(a) == [n |-> Abs(a.n), d |-> a.d]

\* a < b for a, b >= 0, by continued fractions: no product is formed, so no
\* intermediate value exceeds the operands.
RECURSIVE LessNN(_, _, _, _)
LessNN(an, ad, bn, bd) ==
    LET qa == an \div ad
        qb == bn \div bd
        ra == an % ad
        rb == bn % bd
    IN  IF qa # qb THEN qa < qb
        ELSE IF rb = 0 THEN FALSE
        ELSE IF ra = 0 THEN TRUE
        ELSE LessNN(bd, rb, ad, ra)

RLess(a, b) ==
    IF a.n < 0 /\ b.n >= 0 THEN TRUE
    ELSE IF a.n >= 0 /\ b.n < 0 THEN FALSE
    ELSE IF a.n >= 0 THEN LessNN(a.n, a.d, b.n, b.d)
    ELSE LessNN(-b.n, b.d, -a.n, a.d)

RLeq(a, b) == ~RLess(b, a)

RGeq(a, b) == ~RLess(a, b)

\* Arrays: functions over 0..n-1.
Len0(a) == Cardinality(DOMAIN a)

\* The array f as a table of its elements: equal to f, and evaluated once
\* instead of at every use.
Array(f) == f @@ <<>>

\* The sum of a[lo..hi], by halves.
RECURSIVE RSumRange(_, _, _)
RSumRange(a, lo, hi) ==
    IF lo > hi THEN Zero
    ELSE IF lo = hi THEN a[lo]
    ELSE LET mid == (lo + hi) \div 2
         IN  RAdd(RSumRange(a, lo, mid), RSumRange(a, mid + 1, hi))

RSum(a) == RSumRange(a, 0, Len0(a) - 1)

\* The integer square root of m within lo..hi, by bisection.
RECURSIVE ISqrt(_, _, _)
ISqrt(m, lo, hi) ==
    IF lo >= hi THEN lo
    ELSE LET mid == (lo + hi + 1) \div 2
         IN  IF mid * mid <= m THEN ISqrt(m, mid, hi) ELSE ISqrt(m, lo, mid - 1)

\* The least k >= 0 with (k / ZScale)^2 >= rn / rd.
CeilRoot(rn, rd) ==
    LET m == (rn * ZScale * ZScale + rd - 1) \div rd
        f == ISqrt(m, 0, m)
    IN  IF f * f = m THEN f ELSE f + 1

\* x / sqrt(v) for rationals x and v > 0, on the grid of 1 / ZScale, the
\* magnitude rounded up (so the sign, and x # 0, are kept).
DivBySqrt(x, v) ==
    LET r == RDiv(RMul(x, x), v)
        k == CeilRoot(r.n, r.d)
    IN  Q(IF x.n < 0 THEN -k ELSE k, ZScale)

(***************************************************************************)
(* strategy_new.py: the Dip-Boost allocator.                               *)
(***************************************************************************)
MIN_WEIGHT == [n |-> 1, d |-> 100000]

TrendWindow == 200

\* A DataFrame with a PriceUSD column: its index (dates, as day numbers)
\* and the column, both over 0..n-1.
Frame(start, prices) ==
    [index |-> [i \in DOMAIN prices |-> start + i], PriceUSD |-> prices]

\* rolling(window=200, min_periods=1) over past_price = PriceUSD.shift(1):
\* at row t the samples are PriceUSD[t-200 .. t-1], those that exist.
PastLo(t) == Max(0, t - TrendWindow)

\* The sums of p[lo..hi] and of its squares, by halves.
RECURSIVE WinSum(_, _, _)
WinSum(s, lo, hi) ==
    IF lo > hi THEN 0
    ELSE IF lo = hi THEN s[lo]
    ELSE LET mid == (lo + hi) \div 2
         IN  WinSum(s, lo, mid) + WinSum(s, mid + 1, hi)

RECURSIVE WinSumSq(_, _, _)
WinSumSq(s, lo, hi) ==
    IF lo > hi THEN 0
    ELSE IF lo = hi THEN s[lo] * s[lo]
    ELSE LET mid == (lo + hi) \div 2
         IN  WinSumSq(s, lo, mid) + WinSumSq(s, mid + 1, hi)

PastSum(p, lo, hi) == WinSum(p, lo, hi - 1)

PastSumSq(p, lo, hi) == WinSumSq(p, lo, hi - 1)

\* A mean taken over the prices up to and including the day itself.
RollingMean_unshifted(p, t) ==
    LET k == t - PastLo(t) + 1
    IN  Q(WinSum(p, PastLo(t), t), k)

\* .mean(): NaN without a sample.
RollingMean(p, t) ==
    LET k == t - PastLo(t)
    IN  IF k < 1 THEN NaN ELSE Q(PastSum(p, PastLo(t), t), k)

\* A deviation taken over the prices up to and including the day itself.
RollingVar_unshifted(p, t) ==
    LET k == t - PastLo(t) + 1
        s == WinSum(p, PastLo(t), t)
        ss == WinSumSq(p, PastLo(t), t)
    IN  IF k < 2 THEN NaN ELSE Q(k * ss - s * s, k * (k - 1))

\* A population deviation (ddof = 0): defined from the first sample on.
RollingVar_population(p, t) ==
    LET k == t - PastLo(t)
        s == PastSum(p, PastLo(t), t)
        ss == PastSumSq(p, PastLo(t), t)
    IN  IF k < 1 THEN NaN ELSE Q(k * ss - s * s, k * k)

\* .std() (ddof = 1): NaN with fewer than two samples.  The value is carried
\* as its square, the sample variance; std200 == 0 iff the variance is 0.
RollingVar(p, t) ==
    LET k == t - PastLo(t)
        s == PastSum(p, PastLo(t), t)
        ss == PastSumSq(p, PastLo(t), t)
    IN  IF k < 2 THEN NaN ELSE Q(k * ss - s * s, k * (k - 1))

\* The columns added to the caller's frame instead of a copy of it.
construct_features_nocopy(df) ==
    LET result == [index |-> df.index,
                   PriceUSD |-> df.PriceUSD,
                   ma200 |-> [t \in DOMAIN df.PriceUSD |-> RollingMean(df.PriceUSD, t)],
                   std200 |-> [t \in DOMAIN df.PriceUSD |-> RollingVar(df.PriceUSD, t)]]
    IN  [df |-> result, result |-> result]

\* construct_features: works on a copy; returns the frame with ma200 and
\* std200 added.  df is what the caller's frame is after the call.
construct_features_new(df) ==
    [df |-> df,
     result |-> [index |-> df.index,
                 PriceUSD |-> df.PriceUSD,
                 ma200 |-> [t \in DOMAIN df.PriceUSD |-> RollingMean(df.PriceUSD, t)],
                 std200 |-> [t \in DOMAIN df.PriceUSD |-> RollingVar(df.PriceUSD, t)]]]

\* A horizon that is the whole window.
rebalance_window_whole(total_days) == total_days

\* Line 89.
rebalance_window_of(total_days) == Max(total_days \div 2, 1)

\* A redistribution horizon that may reach back to the boosted day and
\* before it.
start_redistribution_unclamped(total_days, day_idx) ==
    total_days - rebalance_window_of(total_days)

\* Line 120.
start_redistribution_of(total_days, day_idx) ==
    Max(total_days - rebalance_window_of(total_days), day_idx + 1)

\* Targets that are all the other days of the window.
redistribution_indices_all(total_days, day_idx) ==
    (0 .. (total_days - 1)) \ {day_idx}

\* Line 121.
redistribution_indices_of(total_days, day_idx) ==
    start_redistribution_of(total_days, day_idx) .. (total_days - 1)

\* A skip test without the comparison of the price with the trend.
NoSignal_anyprice(features, day_idx) ==
    LET ma200 == features.ma200[day_idx]
        std200 == features.std200[day_idx]
    IN  \/ IsNaN(ma200)
        \/ IsNaN(std200)
        \/ std200 = Zero

\* Line 107: no valid signal.
NoSignal(features, day_idx) ==
    LET price == features.PriceUSD[day_idx]
        ma200 == features.ma200[day_idx]
        std200 == features.std200[day_idx]
    IN  \/ IsNaN(ma200)
        \/ IsNaN(std200)
        \/ std200 = Zero
        \/ RGeq(RInt(price), ma200)

z_score_of(features, day_idx) ==
    DivBySqrt(RSub(features.ma200[day_idx], RInt(features.PriceUSD[day_idx])),
              features.std200[day_idx])

\* A safety check that was left out: every boost is applied.
SafetyCheck_none(tw, idx, per_day_reduction) == TRUE

\* Line 136: np.all(future_weights_after_reduction >= MIN_WEIGHT).
SafetyCheck(tw, idx, per_day_reduction) ==
    \A j \in idx : RGeq(RSub(tw[j], per_day_reduction), MIN_WEIGHT)

\* The whole excess taken from every target.
per_day_reduction_whole(excess, idx) == excess

\* The excess shared over one day too many.
per_day_reduction_wide(excess, idx) == RDiv(excess, RInt(Cardinality(idx) + 1))

\* Line 128.
per_day_reduction_of(excess, idx) == RDiv(excess, RInt(Cardinality(idx)))

\* A day loop that boosts the day even when the boost cannot be funded.
LoopBody_partial(tw, features, total_days, day_idx, boost_alpha) ==
    IF NoSignal(features, day_idx)
    THEN [temp_weights |-> tw, branch |-> "no_signal"]
    ELSE LET z_score == z_score_of(features, day_idx)
             boosted_weight == RMul(tw[day_idx], RAdd(One, RMul(boost_alpha, z_score)))
             excess == RSub(boosted_weight, tw[day_idx])
             idx == redistribution_indices_of(total_days, day_idx)
         IN  IF idx = {}
             THEN [temp_weights |-> [tw EXCEPT ![day_idx] = boosted_weight],
                   branch |-> "no_targets"]
             ELSE LET per_day_reduction == per_day_reduction_of(excess, idx)
                  IN  IF SafetyCheck(tw, idx, per_day_reduction)
                      THEN [temp_weights |->
                                [j \in DOMAIN tw |->
                                    IF j = day_idx THEN boosted_weight
                                    ELSE IF j \in idx THEN RSub(tw[j], per_day_reduction)
                                    ELSE tw[j]],
                            branch |-> "commit"]
                      ELSE [temp_weights |-> [tw EXCEPT ![day_idx] = boosted_weight],
                            branch |-> "floor"]

\* One iteration of the day loop (lines 101-140): the buffer after it, and
\* the branch it took.
LoopBody(tw, features, total_days, day_idx, boost_alpha) ==
    IF NoSignal(features, day_idx)
    THEN [temp_weights |-> tw, branch |-> "no_signal"]
    ELSE LET z_score == z_score_of(features, day_idx)
             boosted_weight == RMul(tw[day_idx], RAdd(One, RMul(boost_alpha, z_score)))
             excess == RSub(boosted_weight, tw[day_idx])
             idx == redistribution_indices_of(total_days, day_idx)
         IN  IF idx = {}
             THEN [temp_weights |-> tw, branch |-> "no_targets"]
             ELSE LET per_day_reduction == per_day_reduction_of(excess, idx)
                  IN  IF SafetyCheck(tw, idx, per_day_reduction)
                      THEN [temp_weights |->
                                [j \in DOMAIN tw |->
                                    IF j = day_idx THEN boosted_weight
                                    ELSE IF j \in idx THEN RSub(tw[j], per_day_reduction)
                                    ELSE tw[j]],
                            branch |-> "commit"]
                      ELSE [temp_weights |-> tw, branch |-> "floor"]

\* np.isclose(a, b, rtol=1e-5, atol=1e-8): |a - b| <= atol + rtol * |b|.
IsClose(a, b) ==
    RLeq(RAbs(RSub(a, b)),
         RAdd([n |-> 1, d |-> 100000000], RMul([n |-> 1, d |-> 100000], RAbs(b))))

\* A renormalization by the number of days instead of the sum.
Finish_by_count(dates, tw) ==
    [index |-> dates, values |-> [j \in DOMAIN tw |-> RDiv(tw[j], RInt(Len0(tw)))]]

\* A Series made without index=dates: it is keyed 0, 1, 2, ...
Finish_unindexed(dates, tw) ==
    LET weight_sum == RSum(tw)
    IN  [index |-> [j \in DOMAIN tw |-> j],
         values |-> IF IsClose(weight_sum, One) THEN tw
                    ELSE [j \in DOMAIN tw |-> RDiv(tw[j], weight_sum)]]

\* Lines 143-152: the Series over the dates, renormalized if its sum is not
\* close to 1.
Finish_new(dates, tw) ==
    LET weight_sum == RSum(tw)
    IN  [index |-> dates,
         values |-> IF IsClose(weight_sum, One) THEN tw
                    ELSE [j \in DOMAIN tw |-> RDiv(tw[j], weight_sum)]]

EmptySeries == [index |-> <<>>, values |-> <<>>]

\* validate_weights, lines 331-363 (and validate_gt_weights, lines 202-229
\* of strategy_gt.py, the same text with that module's MIN_WEIGHT): the
\* results dictionary.
validate_weights(w, min_weight) ==
    LET nonpos == \E i \in DOMAIN w.values : RLeq(w.values[i], Zero)
        below == \E i \in DOMAIN w.values : RLess(w.values[i], min_weight)
        weight_sum == RSum(w.values)
    IN  [valid |-> ~nonpos /\ ~below,
         errors |-> (IF nonpos THEN <<"Found non-positive weights">> ELSE <<>>)
                    \o (IF below THEN <<"Found weights below MIN_WEIGHT">> ELSE <<>>),
         warnings |-> IF IsClose(weight_sum, One) THEN <<>> ELSE <<"Weights sum">>]

\* A validator that takes a sum away from 1 for an error.
validate_call_strict(w, min_weight) ==
    LET r == validate_weights(w, min_weight)
    IN  [weights |-> w,
         raised |-> FALSE,
         results |-> IF r.warnings = <<>> THEN r
                     ELSE [valid |-> FALSE, errors |-> r.errors \o r.warnings,
                           warnings |-> r.warnings]]

\* A validator that refuses the empty Series.
validate_call_nonempty(w, min_weight) ==
    [weights |-> w,
     raised |-> w.values = <<>>,
     results |-> validate_weights(w, min_weight)]

\* A call of a validator as its caller sees it: the Series it passed, as it
\* is after the call; whether the call raised; the report returned.  The
\* comparisons make new Series, weights.sum() only reads, and nothing in
\* lines 346-363 raises for a Series of floats.
validate_call(w, min_weight) ==
    [weights |-> w,
     raised |-> FALSE,
     results |-> validate_weights(w, min_weight)]

(***************************************************************************)
(* strategy_gt.py: the Strategic/Tactical allocator.                       *)
(*                                                                         *)
(* Fixed point: an integer x stands for x / Scale.                         *)
(***************************************************************************)
FMul(x, y) == (x * y) \div Scale

\* <<quotient, remainder>> of (n * s) by d for n, s >= 0, three bits of s at
\* a time, so that the product itself is never formed.
RECURSIVE MulDiv(_, _, _)
MulDiv(n, s, d) ==
    IF s = 0 THEN <<0, 0>>
    ELSE LET h == MulDiv(n, s \div 8, d)
             r == 8 * h[2] + (s % 8) * (n % d)
         IN  <<8 * h[1] + (s % 8) * (n \div d) + (r \div d), r % d>>

\* A rational as fixed point, rounded down.
RToFix(q) ==
    IF q.n >= 0 THEN MulDiv(q.n, Scale, q.d)[1]
    ELSE LET m == MulDiv(-q.n, Scale, q.d)
         IN  IF m[2] = 0 THEN -m[1] ELSE -m[1] - 1

RECURSIVE FixPow(_, _)
FixPow(x, k) == IF k = 0 THEN Scale ELSE FMul(FixPow(x, k - 1), x)

FixSqrt(x) == ISqrt(x * Scale, 0, Max(x, Scale))

\* exp(x) for x >= 0: the power series up to one unit, squaring above it.
RECURSIVE ExpSeries(_, _, _)
ExpSeries(x, k, term) ==
    IF term = 0 THEN 0 ELSE term + ExpSeries(x, k + 1, (term * x) \div (k * Scale))

RECURSIVE ExpPos(_)
ExpPos(x) ==
    IF x <= Scale THEN ExpSeries(x, 1, Scale)
    ELSE FMul(ExpPos(x \div 2), ExpPos(x - (x \div 2)))

\* np.exp.
ExpFix(x) == IF x >= 0 THEN ExpPos(x) ELSE (Scale * Scale) \div ExpPos(-x)

\* Module constants, lines 20-33.  THETA is in ten-thousandths.
MIN_WEIGHT_GT == [n |-> 1, d |-> 100000]

WINDOWS == <<30, 90, 180, 365, 1461>>

PROTOTYPES == <<<<Q(1, 2), Q(5, 1)>>, <<Q(1, 1), Q(1, 1)>>, <<Q(5, 1), Q(1, 2)>>>>

THETA ==
    <<13507, 10730, -12260, 25141, 29946, -4083, -1082, -6809,
      3465, -6804, -29974, -29991, -12658, -3680, 7567, -19627,
      -19124, 29983, 5704, 0, 8669, 12546, 50000>>

Theta(G, i) == G.THETA[i + 1]

ThetaUnit == 10000

\* The module's globals as they are after import.
ModuleGT ==
    [MIN_WEIGHT |-> MIN_WEIGHT_GT, WINDOWS |-> WINDOWS, PROTOTYPES |-> PROTOTYPES,
     THETA |-> THETA, FULL_FEATURES |-> <<>>]

\* softmax, lines 36-39: x an array of rationals; ex in fixed point, the
\* quotient exact.
RECURSIVE RMaxTo(_, _)
RMaxTo(x, k) ==
    IF k = 1 THEN x[0]
    ELSE LET m == RMaxTo(x, k - 1) IN IF RLess(m, x[k - 1]) THEN x[k - 1] ELSE m

softmax(x) ==
    LET mx == RMaxTo(x, Len0(x))
        ex == Array([i \in DOMAIN x |-> ExpFix(RToFix(RSub(x[i], mx)))])
        tot == WinSum(ex, 0, Len0(ex) - 1)
    IN  Array([i \in DOMAIN x |-> Q(ex[i], tot)])

\* The Beta function B(a, m) for an integer m >= 1 and a = p / q:
\* (m-1)! / (a (a+1) ... (a+m-1)) = (m-1)! q^m / (p (p+q) ... (p+(m-1)q)).
RECURSIVE BetaNum(_, _)
BetaNum(q, m) == IF m = 1 THEN q ELSE (m - 1) * q * BetaNum(q, m - 1)

RECURSIVE BetaDen(_, _, _)
BetaDen(p, q, m) == IF m = 1 THEN p ELSE (p + (m - 1) * q) * BetaDen(p, q, m - 1)

BetaInt(a, m) == Q(BetaNum(a.d, m), BetaDen(a.n, a.d, m))

BetaFn(a, b) == IF b.d = 1 THEN BetaInt(a, b.n) ELSE BetaInt(b, a.n)

\* t ^ (a - 1) in fixed point, for t in fixed point and a an integer or 1/2.
PowAm1(t, a) == IF a.d = 1 THEN FixPow(t, a.n - 1) ELSE (Scale * Scale) \div FixSqrt(t)

\* scipy.stats.beta.pdf(t, a, b) = t^(a-1) (1-t)^(b-1) / B(a, b).
beta_pdf(t, a, b) ==
    LET B == BetaFn(a, b)
    IN  (FMul(PowAm1(t, a), PowAm1(Scale - t, b)) * B.d) \div B.n

\* beta_mix_pdf, lines 67-72: t = linspace(0.5/n, 1 - 0.5/n, n), the
\* midpoints (i + 0.5) / n.
beta_mix_pdf(G, n, mix) ==
    LET t == Array([i \in 0 .. (n - 1) |-> RToFix(Q(2 * i + 1, 2 * n))])
        pdf == Array([k \in 0 .. 2 |->
                   Array([i \in 0 .. (n - 1) |->
                       Q(beta_pdf(t[i], G.PROTOTYPES[k + 1][1], G.PROTOTYPES[k + 1][2]),
                         Scale)])])
    IN  Array([i \in 0 .. (n - 1) |->
            RToFix(RDiv(RSum(Array([k \in 0 .. 2 |-> RMul(mix[k], pdf[k][i])])),
                        RInt(n)))])

\* np.log(PriceUSD).  The inputs are powers of two and the logarithm is
\* taken to base 2: the z-score (s - m) / sd is the same in every base.
RECURSIVE Log2(_)
Log2(p) == IF p <= 1 THEN 0 ELSE 1 + Log2(p \div 2)

\* zscore(s, win) at row t, lines 75-79: rolling(win, win // 2) over
\* s[t-win+1 .. t]; NaN (too few samples, or 0/0) is filled with 0.
zscore(s, win, t) ==
    LET lo == Max(0, t - win + 1)
        k == t - lo + 1
    IN  IF k < win \div 2 \/ k < 2 THEN Zero
        ELSE LET sm == WinSum(s, lo, t)
                 ss == WinSumSq(s, lo, t)
                 var == Q(k * ss - sm * sm, k * (k - 1))
             IN  IF var = Zero THEN Zero
                 ELSE DivBySqrt(RSub(RInt(s[t]), Q(sm, k)), var)

\* z-scores left as they are.
clip4_none(z) == z

\* .clip(-4, 4)
clip4(z) ==
    IF RLess(z, RInt(-4)) THEN RInt(-4) ELSE IF RLess(RInt(4), z) THEN RInt(4) ELSE z

\* Line 90: "PriceUSD" in df.columns.
HasPrice(df) == "PriceUSD" \in DOMAIN df

\* construct_features, lines 82-111: the frame with the five lagged,
\* clipped z-scores, or the ValueError of line 91 for a frame without a
\* PriceUSD column.  G is the module's globals: _FULL_FEATURES is declared
\* global (line 87) and neither read nor assigned.
construct_features_gt(G, df) ==
    IF ~HasPrice(df)
    THEN [df |-> df, G |-> G, raised |-> TRUE,
          result |-> [index |-> <<>>, PriceUSD |-> <<>>, z |-> <<>>]]
    ELSE
    LET log_prices == Array([t \in DOMAIN df.PriceUSD |-> Log2(df.PriceUSD[t])])
        z == Array([t \in DOMAIN df.PriceUSD |->
                Array([j \in 0 .. (Len(G.WINDOWS) - 1) |->
                    clip4(zscore(log_prices, G.WINDOWS[j + 1], t))])])
        z_lagged == Array([t \in DOMAIN df.PriceUSD |->
                        IF t = 0 THEN Array([j \in 0 .. (Len(G.WINDOWS) - 1) |-> Zero])
                        ELSE z[t - 1]])
    IN  [df |-> df,
         G |-> G,
         raised |-> FALSE,
         result |-> [index |-> df.index, PriceUSD |-> df.PriceUSD, z |-> z_lagged]]

\* A feature value in units of 1 / ZScale: the features are z-scores on that
\* grid, clipped to integers.
ZUnits(z) == z.n * (ZScale \div z.d)

\* Scores without the leading 1 of np.r_[1, first_day_feats]: the bias
\* column of alpha is left out.
StrategicScores_nobias(G, f) ==
    Array([r \in 0 .. 2 |->
        Q(Theta(G, 6 * r + 1) * ZUnits(f[0])
              + Theta(G, 6 * r + 2) * ZUnits(f[1])
              + Theta(G, 6 * r + 3) * ZUnits(f[2])
              + Theta(G, 6 * r + 4) * ZUnits(f[3])
              + Theta(G, 6 * r + 5) * ZUnits(f[4]),
          ThetaUnit * ZScale)])

\* alpha @ np.r_[1, first_day_feats], line 151: 3 scores.  The products
\* are taken over the common denominator ThetaUnit * ZScale.
StrategicScores(G, f) ==
    Array([r \in 0 .. 2 |->
        Q(Theta(G, 6 * r) * ZScale
              + Theta(G, 6 * r + 1) * ZUnits(f[0])
              + Theta(G, 6 * r + 2) * ZUnits(f[1])
              + Theta(G, 6 * r + 3) * ZUnits(f[2])
              + Theta(G, 6 * r + 4) * ZUnits(f[3])
              + Theta(G, 6 * r + 5) * ZUnits(f[4]),
          ThetaUnit * ZScale)])

\* np.exp(-(features @ beta_v)), line 156, at one row.
dynamic_signal_at(G, f) ==
    ExpFix(RToFix(Q(-(Theta(G, 18) * ZUnits(f[0])
                          + Theta(G, 19) * ZUnits(f[1])
                          + Theta(G, 20) * ZUnits(f[2])
                          + Theta(G, 21) * ZUnits(f[3])
                          + Theta(G, 22) * ZUnits(f[4])),
                    ThetaUnit * ZScale)))

\* Mixture weights taken from the features of the last day.
mix_of_lastday(G, feat_slice) ==
    softmax(StrategicScores(G, feat_slice.z[Len0(feat_slice.z) - 1]))

\* Lines 150-151: the mixture weights, from the first day's features.
mix_of(G, feat_slice) == softmax(StrategicScores(G, feat_slice.z[0]))

\* Lines 156 and 159: raw = base * tilt.
raw_of(G, feat_slice, base_alloc) ==
    Array([i \in DOMAIN feat_slice.PriceUSD |->
        Q(FMul(base_alloc[i], dynamic_signal_at(G, feat_slice.z[i])), Scale)])

\* The tilt taken with beta_v negated in place: beta_v is a view of THETA,
\* which is left negated.
tactical_inplace(G, feat_slice, base_alloc) ==
    [G |-> [G EXCEPT !.THETA = [i \in DOMAIN G.THETA |->
                                   IF i > 18 THEN -G.THETA[i] ELSE G.THETA[i]]],
     raw |-> raw_of(G, feat_slice, base_alloc)]

\* Lines 146-159: alpha and beta_v are views of THETA and are only read;
\* the module's globals after the step, and raw_weights.
tactical_of(G, feat_slice, base_alloc) ==
    [G |-> G, raw |-> raw_of(G, feat_slice, base_alloc)]

MinHistory == 50

\* A window of exactly 50 days taken for too short.
TooShort_inclusive(n) == n <= MinHistory

\* Line 132.
TooShort(n) == n < MinHistory

\* Lines 134-135 and 142-143: the uniform Series over the window's index.
UniformSeries(df) ==
    [index |-> df.index,
     values |-> [i \in DOMAIN df.index |-> Q(1, Len0(df.index))]]

\* A drain that hands out the whole budget on top of the floors.
DrainStart_fullbudget(G, raw_in) ==
    LET clipped == Array([i \in DOMAIN raw_in |-> IF raw_in[i].n < 0 THEN Zero ELSE raw_in[i]])
        raw == IF RSum(clipped) = Zero THEN Array([i \in DOMAIN raw_in |-> One]) ELSE clipped
        tot == RSum(raw)
        baseline == Array([i \in DOMAIN raw |-> RDiv(raw[i], tot)])
    IN  [baseline |-> baseline,
         w |-> Array([i \in DOMAIN baseline |-> G.MIN_WEIGHT]),
         rem |-> One,
         rem_raw |-> RSum(baseline)]

\* A drain that starts from empty days instead of the floor.
DrainStart_nofloor(G, raw_in) ==
    LET clipped == Array([i \in DOMAIN raw_in |-> IF raw_in[i].n < 0 THEN Zero ELSE raw_in[i]])
        raw == IF RSum(clipped) = Zero THEN Array([i \in DOMAIN raw_in |-> One]) ELSE clipped
        tot == RSum(raw)
        baseline == Array([i \in DOMAIN raw |-> RDiv(raw[i], tot)])
    IN  [baseline |-> baseline,
         w |-> Array([i \in DOMAIN baseline |-> Zero]),
         rem |-> One,
         rem_raw |-> RSum(baseline)]

\* A drain without lines 48-49: a raw vector that sums to 0 is divided by
\* its sum, which leaves no baseline mass.
DrainStart_noreset(G, raw_in) ==
    LET raw == Array([i \in DOMAIN raw_in |-> IF raw_in[i].n < 0 THEN Zero ELSE raw_in[i]])
        tot == RSum(raw)
        baseline == Array([i \in DOMAIN raw |->
                        IF tot = Zero THEN Zero ELSE RDiv(raw[i], tot)])
        n == Len0(baseline)
    IN  [baseline |-> baseline,
         w |-> Array([i \in DOMAIN baseline |-> G.MIN_WEIGHT]),
         rem |-> RSub(One, RMul(G.MIN_WEIGHT, RInt(n))),
         rem_raw |-> RSum(baseline)]

\* allocate_sequential, lines 47-55: np.clip makes a new array; the state
\* before the loop.
DrainStart(G, raw_in) ==
    LET clipped == Array([i \in DOMAIN raw_in |-> IF raw_in[i].n < 0 THEN Zero ELSE raw_in[i]])
        raw == IF RSum(clipped) = Zero THEN Array([i \in DOMAIN raw_in |-> One]) ELSE clipped
        tot == RSum(raw)
        baseline == Array([i \in DOMAIN raw |-> RDiv(raw[i], tot)])
        n == Len0(baseline)
    IN  [baseline |-> baseline,
         w |-> Array([i \in DOMAIN baseline |-> G.MIN_WEIGHT]),
         rem |-> RSub(One, RMul(G.MIN_WEIGHT, RInt(n))),
         rem_raw |-> RSum(baseline)]

\* A drain step that keeps the baseline mass as it was.
DrainStep_fixedmass(st, d) ==
    LET share == IF st.rem_raw = Zero THEN Zero
                 ELSE RMul(RDiv(st.baseline[d], st.rem_raw), st.rem)
    IN  [baseline |-> st.baseline,
         w |-> [st.w EXCEPT ![d] = RAdd(st.w[d], share)],
         rem |-> RSub(st.rem, share),
         rem_raw |-> st.rem_raw]

\* A drain step that gives a day its baseline part of the remaining budget,
\* not its part of the remaining mass.
DrainStep_greedy(st, d) ==
    LET share == RMul(st.baseline[d], st.rem)
    IN  [baseline |-> st.baseline,
         w |-> [st.w EXCEPT ![d] = RAdd(st.w[d], share)],
         rem |-> RSub(st.rem, share),
         rem_raw |-> RSub(st.rem_raw, st.baseline[d])]

\* Lines 58-61: one day of the drain.
DrainStep(st, d) ==
    LET share == IF st.rem_raw = Zero THEN Zero
                 ELSE RMul(RDiv(st.baseline[d], st.rem_raw), st.rem)
    IN  [baseline |-> st.baseline,
         w |-> [st.w EXCEPT ![d] = RAdd(st.w[d], share)],
         rem |-> RSub(st.rem, share),
         rem_raw |-> RSub(st.rem_raw, st.baseline[d])]

\* Line 64: w / w.sum().
DrainFinish(w) ==
    LET tot == RSum(w) IN Array([i \in DOMAIN w |-> RDiv(w[i], tot)])

(***************************************************************************)
(* simulation.py: simulate_accumulation.                                   *)
(***************************************************************************)
\* range(min(current_day + 1, len(df_window))), line 28: its length.
SimRows(args) == Max(0, Min(args.current_day + 1, Len0(args.df_window.index)))

\* A row whose remaining budget counts the day itself among the days left.
SimStep_fromtoday(args, i, btc, spent) ==
    LET price == RInt(args.df_window.PriceUSD[i])
        weight == args.weights.values[i]
        amount_to_spend == RMul(args.budget, weight)
        btc_bought == IF RLess(Zero, price) THEN RDiv(amount_to_spend, price) ELSE Zero
        new_btc == RAdd(btc, btc_bought)
        new_spent == RAdd(spent, amount_to_spend)
        portfolio_value == RMul(new_btc, price)
        remaining_weight_sum == RSumRange(args.weights.values, i, Len0(args.weights.values) - 1)
    IN  [total_btc |-> new_btc,
         total_spent |-> new_spent,
         row |-> [Date |-> args.df_window.index[i],
                  Price |-> price,
                  Weight |-> weight,
                  Amount_Spent |-> amount_to_spend,
                  BTC_Bought |-> btc_bought,
                  Total_BTC |-> new_btc,
                  Total_Spent |-> new_spent,
                  Portfolio_Value |-> portfolio_value,
                  Remaining_Budget |-> RMul(args.budget, remaining_weight_sum),
                  PnL |-> RSub(portfolio_value, new_spent)]]

\* Lines 29-71: one row, and the running totals after it.  The columns
\* PnL_Pct, Daily_SPD, Weighted_SPD, Cumulative_SPD and Avg_Entry_Price, which
\* nothing else reads, are left out.
SimStep(args, i, btc, spent) ==
    LET price == RInt(args.df_window.PriceUSD[i])
        weight == args.weights.values[i]
        amount_to_spend == RMul(args.budget, weight)
        btc_bought == IF RLess(Zero, price) THEN RDiv(amount_to_spend, price) ELSE Zero
        new_btc == RAdd(btc, btc_bought)
        new_spent == RAdd(spent, amount_to_spend)
        portfolio_value == RMul(new_btc, price)
        remaining_weight_sum ==
            IF i + 1 < Len0(args.weights.values)
            THEN RSumRange(args.weights.values, i + 1, Len0(args.weights.values) - 1)
            ELSE Zero
    IN  [total_btc |-> new_btc,
         total_spent |-> new_spent,
         row |-> [Date |-> args.df_window.index[i],
                  Price |-> price,
                  Weight |-> weight,
                  Amount_Spent |-> amount_to_spend,
                  BTC_Bought |-> btc_bought,
                  Total_BTC |-> new_btc,
                  Total_Spent |-> new_spent,
                  Portfolio_Value |-> portfolio_value,
                  Remaining_Budget |-> RMul(args.budget, remaining_weight_sum),
                  PnL |-> RSub(portfolio_value, new_spent)]]

(***************************************************************************)
(* Inputs.                                                                 *)
(***************************************************************************)
\* Arguments of simulate_accumulation: windows of up to MaxSimDays days at
\* one price or at rising prices, a weight for each day (weights that sum to
\* 1 and weights that do not), a budget, and a current day from before the
\* window to past its end.
MaxSimDays == 3

SimWeightValues == {Zero, [n |-> 1, d |-> 4], [n |-> 1, d |-> 2], One}

SimBudgets == {RInt(100)}

SimArgs ==
    UNION {
        {[df_window |-> Frame(1, prices),
          weights |-> [index |-> [i \in 0 .. (n - 1) |-> 1 + i], values |-> w],
          budget |-> budget,
          current_day |-> current_day] :
            prices \in {[i \in 0 .. (n - 1) |-> 1], [i \in 0 .. (n - 1) |-> i + 1]},
            w \in [0 .. (n - 1) -> SimWeightValues],
            budget \in SimBudgets,
            current_day \in (-1) .. n} : n \in 0 .. MaxSimDays}

Prices == 1 .. MaxPrice

PriceArrays(lo, hi) == UNION {[0 .. (n - 1) -> Prices] : n \in lo .. hi}

StartDates == {0, 1}

Alphas == {[n |-> 1, d |-> 2], [n |-> 5, d |-> 4], [n |-> 3, d |-> 1]}

\* The window of the boost example: 30 days at one price, 20% lower on day
\* 10.  In the uneven variant day 9 is higher, so that the ten prices before
\* day 10 are not all the same.
ExampleWindow(uneven) ==
    [i \in 0 .. 29 |-> IF i = 10 THEN 4 ELSE IF uneven /\ i = 9 THEN 6 ELSE 5]

ExampleWindows == {ExampleWindow(uneven) : uneven \in BOOLEAN}

\* raw vectors handed to allocate_sequential directly.
RawValues == {RInt(-1), Zero, One, RInt(3)}

RawArrays == UNION {[0 .. (n - 1) -> RawValues] : n \in 1 .. MaxRawLen}

\* Windows for the Strategic/Tactical allocator: a price level (a power of
\* two), doubled on the days of a set of bump days.
BumpDays == {20, 40}

Levels == {1, 2}

GTDays == {0, 1, 2} \cup ((MinHistory - 1) .. GTMaxDays)

GTWindow(n, level, B) == [i \in 0 .. (n - 1) |-> IF i \in B THEN 2 * level ELSE level]

GTWindows ==
    {GTWindow(n, level, B) : n \in GTDays, level \in Levels, B \in SUBSET BumpDays}

\* Series handed to a validator directly: up to MaxMapLen weights, among
\* them negative ones, zero, one between 0 and MIN_WEIGHT, and MIN_WEIGHT.
MaxMapLen == 2

WeightValues == {RInt(-1), Zero, [n |-> 1, d |-> 200000], MIN_WEIGHT, [n |-> 1, d |-> 2], One}

Mappings ==
    {[index |-> [i \in DOMAIN v |-> i], values |-> v] :
        v \in UNION {[0 .. (n - 1) -> WeightValues] : n \in 0 .. MaxMapLen}}

Validators == {"validate_weights", "validate_gt_weights"}

(***************************************************************************)
(* State.                                                                  *)
(***************************************************************************)
VARIABLES
    pc,            \* where the Dip-Boost call is: "idle", "loaded", "loop", "returned"
    df_window,     \* the caller's frame
    boost_alpha,
    features,      \* compute_weights' locals
    total_days,
    temp_weights,
    day_idx,
    branch,        \* what the last iteration of the day loop did
    weights,       \* the Series returned
    gpc,           \* where the Strategic/Tactical call is: "idle", "loaded", "features",
                   \*   "base", "raw", "drain", "returned"
    entry,         \* the function called: "compute_weights", "allocate_sequential"
    G,             \* strategy_gt's module globals
    gt_window,     \* the caller's frame
    feat_slice,    \* compute_weights' local
    mix,           \* compute_weights' locals: the mixture weights,
    base_alloc,    \*   the strategic baseline,
    raw_weights,   \*   and the array handed to allocate_sequential
    drain,         \* allocate_sequential's locals: baseline, w, rem, rem_raw
    d,             \* its loop counter
    gt_weights,    \* the Series (or array) returned
    results,       \* the dictionary the last validator call returned
    validated,     \* the validator called last
    memo,          \* a result the caller kept, with the call it came from
    vpc,           \* where a direct validator call is: "idle", "called", "returned",
                   \*   "raised"
    mapping,       \* the Series the caller passed to it
    spc,           \* where the simulate_accumulation call is: "idle", "loop", "returned"
    sim_args,      \* its arguments: df_window, weights, budget, current_day
    sim_i,         \* its loop counter
    total_btc,     \* its running totals
    total_spent,
    sim_results    \* its list of rows

dbvars == <<pc, df_window, boost_alpha, features, total_days, temp_weights,
            day_idx, branch, weights>>

gtvars == <<gpc, entry, G, gt_window, feat_slice, mix, base_alloc, raw_weights,
            drain, d, gt_weights>>

simvars == <<spc, sim_args, sim_i, total_btc, total_spent, sim_results>>

callervars == <<results, validated, memo, vpc, mapping, simvars>>

vars == <<dbvars, gtvars, callervars>>

NoFrame == [index |-> <<>>, PriceUSD |-> <<>>]

NoFeatures == [index |-> <<>>, PriceUSD |-> <<>>, ma200 |-> <<>>, std200 |-> <<>>]

NoFeaturesGT == [index |-> <<>>, PriceUSD |-> <<>>, z |-> <<>>]

NoDrain == [baseline |-> <<>>, w |-> <<>>, rem |-> Zero, rem_raw |-> Zero]

NoResults == [valid |-> TRUE, errors |-> <<>>, warnings |-> <<>>]

NoSimArgs == [df_window |-> NoFrame, weights |-> EmptySeries, budget |-> Zero, current_day |-> 0]

NoMemo ==
    [who |-> "none", window |-> NoFrame, alpha |-> Zero, features |-> NoFeatures,
     weights |-> EmptySeries]

Init ==
    /\ pc = "idle"
    /\ df_window = NoFrame
    /\ boost_alpha = Zero
    /\ features = NoFeatures
    /\ total_days = 0
    /\ temp_weights = <<>>
    /\ day_idx = 0
    /\ branch = "none"
    /\ weights = EmptySeries
    /\ gpc = "idle"
    /\ entry = "none"
    /\ G = ModuleGT
    /\ gt_window = NoFrame
    /\ feat_slice = NoFeaturesGT
    /\ mix = <<>>
    /\ base_alloc = <<>>
    /\ raw_weights = <<>>
    /\ drain = NoDrain
    /\ d = 0
    /\ gt_weights = EmptySeries
    /\ results = NoResults
    /\ validated = "none"
    /\ memo = NoMemo
    /\ vpc = "idle"
    /\ mapping = EmptySeries
    /\ spc = "idle"
    /\ sim_args = NoSimArgs
    /\ sim_i = 0
    /\ total_btc = Zero
    /\ total_spent = Zero
    /\ sim_results = <<>>

\* The caller (Accumulation_Dashboard.py, lines 48-53): the window and the
\* parameters of the run.
Controls(start, prices, alpha) ==
    /\ pc = "idle"
    /\ df_window' = Frame(start, prices)
    /\ boost_alpha' = alpha
    /\ pc' = "loaded"
    /\ UNCHANGED <<features, total_days, temp_weights, day_idx, branch, weights>>
    /\ UNCHANGED <<gtvars, callervars>>

\* compute_weights without the test of lines 84-85: for an empty window
\* line 92 divides by zero.
Call_unguarded ==
    /\ pc = "loaded"
    /\ LET cf == construct_features_new(df_window)
           n == Len0(cf.result.PriceUSD)
       IN  /\ df_window' = cf.df
           /\ features' = cf.result
           /\ total_days' = n
           /\ temp_weights' = [j \in 0 .. (n - 1) |-> Q(1, n)]
           /\ pc' = IF n = 0 THEN "raised" ELSE "loop"
    /\ day_idx' = 0
    /\ branch' = "none"
    /\ weights' = EmptySeries
    /\ UNCHANGED <<boost_alpha, gtvars, callervars>>

\* compute_weights(df_window, boost_alpha), lines 78-99: up to the loop; an
\* empty window returns at line 85.
Call ==
    /\ pc = "loaded"
    /\ LET cf == construct_features_new(df_window)
           n == Len0(cf.result.PriceUSD)
       IN  /\ df_window' = cf.df
           /\ UNCHANGED boost_alpha
           /\ features' = cf.result
           /\ total_days' = n
           /\ day_idx' = 0
           /\ branch' = "none"
           /\ IF n = 0
              THEN /\ temp_weights' = <<>>
                   /\ weights' = EmptySeries
                   /\ pc' = "returned"
              ELSE /\ temp_weights' = [j \in 0 .. (n - 1) |-> Q(1, n)]
                   /\ weights' = EmptySeries
                   /\ pc' = "loop"
    /\ UNCHANGED <<gtvars, callervars>>

\* One iteration of the day loop.
Iterate ==
    /\ pc = "loop"
    /\ day_idx < total_days
    /\ LET r == LoopBody(temp_weights, features, total_days, day_idx, boost_alpha)
       IN  /\ temp_weights' = r.temp_weights
           /\ branch' = r.branch
    /\ day_idx' = day_idx + 1
    /\ UNCHANGED <<pc, df_window, boost_alpha, features, total_days, weights>>
    /\ UNCHANGED <<gtvars, callervars>>

\* Lines 142-152.
Return ==
    /\ pc = "loop"
    /\ day_idx = total_days
    /\ weights' = Finish_new(features.index, temp_weights)
    /\ pc' = "returned"
    /\ UNCHANGED <<df_window, boost_alpha, features, total_days, temp_weights,
                   day_idx, branch>>
    /\ UNCHANGED <<gtvars, callervars>>

Next ==
    \/ \E start \in StartDates, prices \in PriceArrays(0, MaxDays) \cup ExampleWindows,
          alpha \in Alphas :
          Controls(start, prices, alpha)
    \/ Call
    \/ Iterate
    \/ Return

Spec == Init /\ [][Next]_vars

(***************************************************************************)
(* The Strategic/Tactical allocator as a machine: compute_weights up to its *)
(* call of allocate_sequential, the drain loop day by day, the return.     *)
(* allocate_sequential is also called directly, on small raw vectors.      *)
(***************************************************************************)
\* The caller (Accumulation_Dashboard.py, lines 48-53): the window of the
\* run.
GTControls(start, prices) ==
    /\ gpc = "idle"
    /\ gt_window' = Frame(start, prices)
    /\ gpc' = "loaded"
    /\ UNCHANGED <<entry, G, feat_slice, mix, base_alloc, raw_weights, drain, d, gt_weights>>
    /\ UNCHANGED <<dbvars, callervars>>

\* The caller passes a frame that has no PriceUSD column.
GTControlsOther(prices) ==
    /\ gpc = "idle"
    /\ gt_window' = [index |-> [i \in DOMAIN prices |-> i], Close |-> prices]
    /\ gpc' = "loaded"
    /\ UNCHANGED <<entry, G, feat_slice, mix, base_alloc, raw_weights, drain, d, gt_weights>>
    /\ UNCHANGED <<dbvars, callervars>>

\* compute_weights without the try of lines 138-143: the ValueError of
\* construct_features reaches the caller.
GTCall_propagating ==
    /\ gpc = "loaded"
    /\ entry' = "compute_weights"
    /\ LET df == gt_window
           n == Len0(gt_window.index)
       IN  IF n = 0
           THEN /\ gt_weights' = EmptySeries
                /\ gt_window' = df
                /\ gpc' = "returned"
                /\ UNCHANGED <<G, feat_slice>>
           ELSE IF TooShort(n)
           THEN /\ gt_weights' = UniformSeries(df)
                /\ gt_window' = df
                /\ gpc' = "returned"
                /\ UNCHANGED <<G, feat_slice>>
           ELSE LET cf == construct_features_gt(G, df)
                IN  /\ G' = cf.G
                    /\ gt_window' = cf.df
                    /\ feat_slice' = cf.result
                    /\ gpc' = IF cf.raised THEN "raised" ELSE "features"
                    /\ UNCHANGED gt_weights
    /\ UNCHANGED <<mix, base_alloc, raw_weights, drain, d>>
    /\ UNCHANGED <<dbvars, callervars>>

\* compute_weights(df_window), lines 128-147: the empty window, the window
\* of fewer than 50 days, the features that could not be built, and
\* otherwise the features.
GTCall ==
    /\ gpc = "loaded"
    /\ entry' = "compute_weights"
    /\ LET df == gt_window
           n == Len0(gt_window.index)
       IN  IF n = 0
           THEN /\ gt_weights' = EmptySeries
                /\ gt_window' = df
                /\ gpc' = "returned"
                /\ UNCHANGED <<G, feat_slice>>
           ELSE IF TooShort(n)
           THEN /\ gt_weights' = UniformSeries(df)
                /\ gt_window' = df
                /\ gpc' = "returned"
                /\ UNCHANGED <<G, feat_slice>>
           ELSE LET cf == construct_features_gt(G, df)
                IN  IF cf.raised
                    THEN /\ gt_weights' = UniformSeries(cf.df)
                         /\ gt_window' = cf.df
                         /\ G' = cf.G
                         /\ gpc' = "returned"
                         /\ UNCHANGED feat_slice
                    ELSE /\ G' = cf.G
                         /\ gt_window' = cf.df
                         /\ feat_slice' = cf.result
                         /\ gpc' = "features"
                         /\ UNCHANGED gt_weights
    /\ UNCHANGED <<mix, base_alloc, raw_weights, drain, d>>
    /\ UNCHANGED <<dbvars, callervars>>

\* Lines 150-155: the strategic baseline.
GTStrategic ==
    /\ gpc = "features"
    /\ mix' = mix_of(G, feat_slice)
    /\ base_alloc' = beta_mix_pdf(G, Len0(feat_slice.PriceUSD), mix')
    /\ gpc' = "base"
    /\ UNCHANGED <<entry, G, gt_window, feat_slice, raw_weights, drain, d, gt_weights>>
    /\ UNCHANGED <<dbvars, callervars>>

\* Lines 156-159: the tactical tilt.
GTTactical ==
    /\ gpc = "base"
    /\ LET tilt == tactical_of(G, feat_slice, base_alloc)
       IN  /\ G' = tilt.G
           /\ raw_weights' = tilt.raw
    /\ gpc' = "raw"
    /\ UNCHANGED <<entry, gt_window, feat_slice, mix, base_alloc, drain, d, gt_weights>>
    /\ UNCHANGED <<dbvars, callervars>>

\* Line 160: compute_weights calls allocate_sequential (lines 47-55).
GTAllocate ==
    /\ gpc = "raw"
    /\ drain' = DrainStart(G, raw_weights)
    /\ d' = 0
    /\ gpc' = "drain"
    /\ UNCHANGED <<entry, G, gt_window, feat_slice, mix, base_alloc, raw_weights, gt_weights>>
    /\ UNCHANGED <<dbvars, callervars>>

\* allocate_sequential(raw) called directly, lines 47-55.
DrainCall(raw) ==
    /\ gpc = "idle"
    /\ entry' = "allocate_sequential"
    /\ raw_weights' = raw
    /\ drain' = DrainStart(G, raw)
    /\ d' = 0
    /\ gpc' = "drain"
    /\ UNCHANGED <<G, gt_window, feat_slice, mix, base_alloc, gt_weights>>
    /\ UNCHANGED <<dbvars, callervars>>

\* Lines 57-61.
DrainIter ==
    /\ gpc = "drain"
    /\ d < Len0(drain.baseline)
    /\ drain' = DrainStep(drain, d)
    /\ d' = d + 1
    /\ UNCHANGED <<gpc, entry, G, gt_window, feat_slice, mix, base_alloc, raw_weights,
                   gt_weights>>
    /\ UNCHANGED <<dbvars, callervars>>

\* Line 64, and line 162 for compute_weights.
DrainReturn ==
    /\ gpc = "drain"
    /\ d = Len0(drain.baseline)
    /\ gt_weights' =
          [index |-> IF entry = "compute_weights" THEN feat_slice.index
                     ELSE [i \in DOMAIN drain.w |-> i],
           values |-> DrainFinish(drain.w)]
    /\ gpc' = "returned"
    /\ UNCHANGED <<entry, G, gt_window, feat_slice, mix, base_alloc, raw_weights, drain, d>>
    /\ UNCHANGED <<dbvars, callervars>>

NextGT ==
    \/ \E start \in StartDates, prices \in GTWindows : GTControls(start, prices)
    \/ \E prices \in GTWindows : GTControlsOther(prices)
    \/ GTCall
    \/ GTStrategic
    \/ GTTactical
    \/ GTAllocate
    \/ \E raw \in RawArrays : DrainCall(raw)
    \/ DrainIter
    \/ DrainReturn

SpecGT == Init /\ [][NextGT]_vars

(***************************************************************************)
(* A session of the dashboard: run after run, each with its own window,    *)
(* parameters and choice of allocator; the result of a run may be          *)
(* validated, and the caller may keep the result of one run to compare     *)
(* later results with.                                                     *)
(***************************************************************************)
SessDays == 4

SessPrices == {1, 2}

SessArrays == {<<>>} \cup [0 .. (SessDays - 1) -> SessPrices]

SessAlphas == {[n |-> 1, d |-> 2], [n |-> 3, d |-> 1]}

SessGTWindows ==
    {GTWindow(0, 1, {}), GTWindow(2, 1, {})}
        \cup {GTWindow(MinHistory, 1, B) : B \in SUBSET BumpDays}

\* validate_weights(weights), strategy_new.py.
Validate ==
    /\ pc = "returned"
    /\ results' = validate_weights(weights, MIN_WEIGHT)
    /\ validated' = "validate_weights"
    /\ UNCHANGED <<dbvars, gtvars, memo, vpc, mapping, simvars>>

\* validate_gt_weights(weights), strategy_gt.py.
ValidateGT ==
    /\ gpc = "returned"
    /\ results' = validate_weights(gt_weights, G.MIN_WEIGHT)
    /\ validated' = "validate_gt_weights"
    /\ UNCHANGED <<dbvars, gtvars, memo, vpc, mapping, simvars>>

\* The run ends (Accumulation_Dashboard.py, line 59): the callee's locals
\* are gone; the caller may keep the weights, and the features they came
\* from.
Finish(keep) ==
    /\ pc = "returned"
    /\ memo' = IF keep /\ memo.who = "none"
               THEN [who |-> "dip_boost", window |-> df_window, alpha |-> boost_alpha,
                     features |-> features, weights |-> weights]
               ELSE memo
    /\ pc' = "idle"
    /\ df_window' = NoFrame
    /\ boost_alpha' = Zero
    /\ features' = NoFeatures
    /\ total_days' = 0
    /\ temp_weights' = <<>>
    /\ day_idx' = 0
    /\ branch' = "none"
    /\ weights' = EmptySeries
    /\ results' = NoResults
    /\ validated' = "none"
    /\ UNCHANGED <<gtvars, vpc, mapping, simvars>>

\* The run ends (Accumulation_Dashboard.py, line 57).
GTFinish(keep) ==
    /\ gpc = "returned"
    /\ memo' = IF keep /\ memo.who = "none"
               THEN [who |-> "gt", window |-> gt_window, alpha |-> Zero,
                     features |-> feat_slice, weights |-> gt_weights]
               ELSE memo
    /\ gpc' = "idle"
    /\ entry' = "none"
    /\ gt_window' = NoFrame
    /\ feat_slice' = NoFeaturesGT
    /\ mix' = <<>>
    /\ base_alloc' = <<>>
    /\ raw_weights' = <<>>
    /\ drain' = NoDrain
    /\ d' = 0
    /\ gt_weights' = EmptySeries
    /\ results' = NoResults
    /\ validated' = "none"
    /\ UNCHANGED <<G, dbvars, vpc, mapping, simvars>>

\* One run at a time.
NextSession ==
    \/ \E start \in StartDates, prices \in SessArrays, alpha \in SessAlphas :
          gpc = "idle" /\ Controls(start, prices, alpha)
    \/ Call
    \/ Iterate
    \/ Return
    \/ Validate
    \/ \E keep \in BOOLEAN : Finish(keep)
    \/ \E start \in StartDates, prices \in SessGTWindows :
          pc = "idle" /\ GTControls(start, prices)
    \/ GTCall
    \/ GTStrategic
    \/ GTTactical
    \/ GTAllocate
    \/ DrainIter
    \/ DrainReturn
    \/ ValidateGT
    \/ \E keep \in BOOLEAN : GTFinish(keep)

SpecSession == Init /\ [][NextSession]_vars

(***************************************************************************)
(* The validators called directly, on any Series.                          *)
(***************************************************************************)
\* The MIN_WEIGHT a validator reads: its own module's.
MinWeightOf(which) == IF which = "validate_weights" THEN MIN_WEIGHT ELSE G.MIN_WEIGHT

\* validate_weights(weights) or validate_gt_weights(weights) is called.
ValidatorCall(which, w) ==
    /\ vpc = "idle"
    /\ vpc' = "called"
    /\ validated' = which
    /\ mapping' = w
    /\ results' = NoResults
    /\ UNCHANGED <<dbvars, gtvars, memo, simvars>>

\* Lines 346-363 (202-229): the call runs to its end.
ValidatorReturn ==
    /\ vpc = "called"
    /\ LET r == validate_call(mapping, MinWeightOf(validated))
       IN  /\ mapping' = r.weights
           /\ results' = IF r.raised THEN NoResults ELSE r.results
           /\ vpc' = IF r.raised THEN "raised" ELSE "returned"
    /\ UNCHANGED <<dbvars, gtvars, memo, validated, simvars>>

\* The caller drops the Series and the report.
ValidatorDone ==
    /\ vpc \in {"returned", "raised"}
    /\ vpc' = "idle"
    /\ mapping' = EmptySeries
    /\ results' = NoResults
    /\ validated' = "none"
    /\ UNCHANGED <<dbvars, gtvars, memo, simvars>>

NextValidator ==
    \/ \E which \in Validators, w \in Mappings : ValidatorCall(which, w)
    \/ ValidatorReturn
    \/ ValidatorDone

SpecValidator == Init /\ [][NextValidator]_vars

(***************************************************************************)
(* simulate_accumulation as a machine: the call, the loop row by row, the  *)
(* return.                                                                 *)
(***************************************************************************)
\* Lines 23-26.
SimCall(args) ==
    /\ spc = "idle"
    /\ sim_args' = args
    /\ sim_results' = <<>>
    /\ total_btc' = Zero
    /\ total_spent' = Zero
    /\ sim_i' = 0
    /\ spc' = "loop"
    /\ UNCHANGED <<dbvars, gtvars, results, validated, memo, vpc, mapping>>

\* Lines 28-71: one pass of the loop.
SimIter ==
    /\ spc = "loop"
    /\ sim_i < SimRows(sim_args)
    /\ LET r == SimStep(sim_args, sim_i, total_btc, total_spent)
       IN  /\ total_btc' = r.total_btc
           /\ total_spent' = r.total_spent
           /\ sim_results' = Append(sim_results, r.row)
    /\ sim_i' = sim_i + 1
    /\ UNCHANGED <<spc, sim_args>>
    /\ UNCHANGED <<dbvars, gtvars, results, validated, memo, vpc, mapping>>

\* Line 73.
SimReturn ==
    /\ spc = "loop"
    /\ sim_i >= SimRows(sim_args)
    /\ spc' = "returned"
    /\ UNCHANGED <<sim_args, sim_i, total_btc, total_spent, sim_results>>
    /\ UNCHANGED <<dbvars, gtvars, results, validated, memo, vpc, mapping>>

\* The caller drops the frame of rows.
SimDone ==
    /\ spc = "returned"
    /\ spc' = "idle"
    /\ sim_args' = NoSimArgs
    /\ sim_i' = 0
    /\ total_btc' = Zero
    /\ total_spent' = Zero
    /\ sim_results' = <<>>
    /\ UNCHANGED <<dbvars, gtvars, results, validated, memo, vpc, mapping>>

NextSim ==
    \/ \E args \in SimArgs : SimCall(args)
    \/ SimIter
    \/ SimReturn
    \/ SimDone

SpecSim == Init /\ [][NextSim]_vars

(***************************************************************************)
(* Claims about the Dip-Boost day loop, under Spec.                        *)
(***************************************************************************)
InCall == pc \in {"loop", "returned"} /\ total_days >= 1

AllPricesEqual(df) ==
    "PriceUSD" \in DOMAIN df /\ \A i, j \in DOMAIN df.PriceUSD : df.PriceUSD[i] = df.PriceUSD[j]

\* C1: at every point of the day loop (after the buffer is set up and after
\* each iteration) every entry of the weight buffer is >= MIN_WEIGHT, and so
\* is every weight of the Series returned.
C1_FloorEveryIteration ==
    InCall =>
        /\ \A j \in DOMAIN temp_weights : RGeq(temp_weights[j], MIN_WEIGHT)
        /\ pc = "returned" => \A j \in DOMAIN weights.values : RGeq(weights.values[j], MIN_WEIGHT)

\* An iteration has just skipped a boost because a target would have
\* breached the floor.
C1_Witness ==
    /\ pc = "loop"
    /\ branch = "floor"
    /\ day_idx >= 3

\* C2: the weight buffer sums to 1 when it is set up and after every
\* iteration of the day loop, and the Series returned sums to 1.
C2_SumPreserved ==
    InCall =>
        /\ RSum(temp_weights) = One
        /\ pc = "returned" => RSum(weights.values) = One

\* A call has returned after at least one committed boost.
C2_Witness ==
    /\ pc = "returned"
    /\ \E j \in DOMAIN weights.values : weights.values[j] # Q(1, total_days)

\* C7: in a window whose days all have the same price no boost is ever
\* committed, and every weight returned is 1/N.
C7_UniformDegeneration ==
    (InCall /\ AllPricesEqual(df_window)) =>
        /\ branch # "commit"
        /\ pc = "returned" => \A j \in DOMAIN weights.values : weights.values[j] = Q(1, total_days)

\* A call on a constant window of at least three days (so that a day with a
\* defined, zero deviation was met) has returned.
C7_Witness ==
    /\ pc = "returned"
    /\ total_days >= 3
    /\ AllPricesEqual(df_window)
    /\ features.std200[total_days - 1] = Zero

(***************************************************************************)
(* Claims about the Strategic/Tactical allocator, under SpecGT.            *)
(***************************************************************************)
GTDaysOf == Len0(gt_window.index)

GTReturned == gpc = "returned" /\ entry = "compute_weights" /\ GTDaysOf >= 1

\* C3: allocate_sequential, whatever the raw vector (entries equal to zero
\* included): every weight is >= MIN_WEIGHT while the drain runs, and every
\* weight returned is >= MIN_WEIGHT.
C3_DrainFloor ==
    /\ gpc = "drain" => \A i \in DOMAIN drain.w : RGeq(drain.w[i], G.MIN_WEIGHT)
    /\ (gpc = "returned" /\ entry = "allocate_sequential") =>
           \A i \in DOMAIN gt_weights.values : RGeq(gt_weights.values[i], G.MIN_WEIGHT)

\* allocate_sequential has returned for a raw vector with a zero entry next
\* to a positive one, and the zero entry's day holds exactly the floor.
C3_Witness ==
    /\ gpc = "returned"
    /\ entry = "allocate_sequential"
    /\ \E i, j \in DOMAIN raw_weights :
          /\ raw_weights[i] = Zero
          /\ raw_weights[j].n > 0
          /\ gt_weights.values[i] = G.MIN_WEIGHT

\* C4: in allocate_sequential the weights handed out plus the remaining
\* budget fraction total 1 at every step; after the last day the remaining
\* fraction is 0 and the weights total 1; the weights compute_weights returns
\* for a non-empty window sum to 1.
C4_SumOne ==
    /\ gpc = "drain" => RAdd(RSum(drain.w), drain.rem) = One
    /\ (gpc = "drain" /\ d = Len0(drain.baseline)) =>
           (drain.rem = Zero /\ RSum(drain.w) = One)
    /\ GTReturned => RSum(gt_weights.values) = One

\* compute_weights has returned for a window of at least 50 days whose
\* prices are not all equal.
C4_Witness ==
    /\ GTReturned
    /\ GTDaysOf >= MinHistory
    /\ ~AllPricesEqual(gt_window)
    /\ drain.rem = Zero

BaselineWeight(base, i) ==
    LET tot == WinSum(base, 0, Len0(base) - 1)
    IN  RAdd(G.MIN_WEIGHT,
             RMul(RSub(One, RMul(G.MIN_WEIGHT, RInt(Len0(base)))), Q(base[i], tot)))

AgreeUpTo(a, b, k) ==
    /\ a.index = b.index
    /\ \A i \in 0 .. k : a.PriceUSD[i] = b.PriceUSD[i]

\* C5: a Dip-Boost run on a window of the same length as the window of the
\* kept run, with the same alpha: on every day k up to which the two
\* windows agree, the two weights are the same.
C5_NoLookAheadDipBoost ==
    (pc = "returned" /\ memo.who = "dip_boost" /\ memo.alpha = boost_alpha) =>
        \A k \in DOMAIN weights.values :
            AgreeUpTo(memo.window, df_window, k) =>
                weights.values[k] = memo.weights.values[k]

\* Two runs on windows that agree up to a day and differ after it, one of
\* them with a committed boost.
C5_Witness ==
    /\ pc = "returned"
    /\ memo.who = "dip_boost"
    /\ memo.alpha = boost_alpha
    /\ memo.window # df_window
    /\ AgreeUpTo(memo.window, df_window, 2)
    /\ \E k \in DOMAIN weights.values : weights.values[k] # Q(1, total_days)

\* C6: a Strategic/Tactical run on a window of at least 50 days, of the same
\* length as the window of the kept run: on every day k up to which the two
\* windows agree, the two weights are the same.
C6_NoLookAheadGT ==
    (gpc = "returned" /\ memo.who = "gt" /\ GTDaysOf >= MinHistory) =>
        \A k \in DOMAIN gt_weights.values :
            AgreeUpTo(memo.window, gt_window, k) =>
                gt_weights.values[k] = memo.weights.values[k]

\* C9: a run of either allocator on the window (and alpha) of the kept run
\* returns the weights of the kept run, whatever runs were made in between.
C9_Determinism ==
    /\ (pc = "returned" /\ memo.who = "dip_boost" /\ memo.alpha = boost_alpha
            /\ memo.window = df_window) => weights = memo.weights
    /\ (gpc = "returned" /\ memo.who = "gt" /\ memo.window = gt_window) =>
           gt_weights = memo.weights

\* A second Strategic/Tactical run on a window of at least 50 days whose
\* prices are not all equal has returned.
C9_Witness ==
    /\ gpc = "returned"
    /\ memo.who = "gt"
    /\ memo.window = gt_window
    /\ GTDaysOf >= MinHistory
    /\ ~AllPricesEqual(gt_window)

\* C10: no step of an allocator or of a validator changes the module's
\* globals (THETA, MIN_WEIGHT, WINDOWS, PROTOTYPES, and _FULL_FEATURES, which
\* stays None), and from the call to the return of an allocator, and through
\* every validator call, the caller's window is what the caller passed in.
C10_FrameUnchanged ==
    [][/\ G' = G
       /\ G'.FULL_FEATURES = <<>>
       /\ pc \in {"loaded", "loop"} => df_window' = df_window
       /\ gpc \in {"loaded", "features", "base", "raw", "drain"} => gt_window' = gt_window
       /\ validated' # validated =>
              (validated' = "none" \/ UNCHANGED <<dbvars, gtvars>>)]_vars

\* Runs of both allocators have been made, and the result of the present one
\* has been validated.
C10_Witness ==
    /\ gpc = "returned"
    /\ GTDaysOf >= MinHistory
    /\ memo.who = "dip_boost"
    /\ Len0(memo.window.PriceUSD) >= 1
    /\ validated = "validate_gt_weights"
    /\ results.valid

(***************************************************************************)
(* The boost example, under Spec.                                          *)
(***************************************************************************)
\* The call on an example window with alpha = 1.25 has returned.
ExampleReturned(uneven) ==
    /\ pc = "returned"
    /\ df_window.PriceUSD = ExampleWindow(uneven)
    /\ boost_alpha = Q(5, 4)

\* The mean of the weights of the days other than day k.
MeanOfOthers(w, k) == RDiv(RSub(RSum(w), w[k]), RInt(Len0(w) - 1))

SomeNonPositive(w) == \E i \in DOMAIN w.values : RLeq(w.values[i], Zero)

SomeBelow(w, min_weight) == \E i \in DOMAIN w.values : RLess(w.values[i], min_weight)

\* C12: in the report of either validator, valid is false exactly when some
\* weight is <= 0 or some weight is < MIN_WEIGHT; the errors are there
\* exactly when valid is false; a sum away from 1 shows as a warning only.
C12_ValidExactly ==
    vpc = "returned" =>
        /\ results.valid =
              ~(SomeNonPositive(mapping) \/ SomeBelow(mapping, MinWeightOf(validated)))
        /\ (results.errors = <<>>) = results.valid
        /\ Len(results.errors) =
              (IF SomeNonPositive(mapping) THEN 1 ELSE 0)
                  + (IF SomeBelow(mapping, MinWeightOf(validated)) THEN 1 ELSE 0)
        /\ (results.warnings = <<>>) = IsClose(RSum(mapping.values), One)

\* A validator has returned for weights at or above the floor whose sum is
\* not 1: a valid report with a warning.
C12_Witness ==
    /\ vpc = "returned"
    /\ validated = "validate_gt_weights"
    /\ Len0(mapping.values) = 2
    /\ RSum(mapping.values) # One
    /\ results.valid
    /\ results.warnings # <<>>

\* C13: a call of either validator, on any Series (the empty one and those
\* that break the invariants included), ends by returning, never by raising;
\* what it returns has the fields valid, errors and warnings; and the Series
\* is after the call what it was before.
C13_PureValidator ==
    [][vpc = "called" =>
          /\ vpc' = "returned"
          /\ mapping' = mapping
          /\ DOMAIN results' = {"valid", "errors", "warnings"}
          /\ results'.valid \in BOOLEAN]_vars

\* A validator has returned for the empty Series: a valid report with the
\* warning that the sum is not 1.
C13_Witness ==
    /\ vpc = "returned"
    /\ mapping = EmptySeries
    /\ results.valid
    /\ results.warnings # <<>>

(***************************************************************************)
(* Claims about the edges of the input, under SpecSession.                 *)
(***************************************************************************)
\* C14: a call of either allocator on a window of zero days returns, in one
\* step and without entering the day loop or building features, the empty
\* Series; it does not raise.
C14_EmptyWindow ==
    [][/\ (pc = "loaded" /\ df_window.PriceUSD = <<>>) =>
              (pc' = "returned" /\ weights' = EmptySeries /\ temp_weights' = <<>>)
       /\ (gpc = "loaded" /\ gt_window.PriceUSD = <<>>) =>
              (gpc' = "returned" /\ gt_weights' = EmptySeries
                  /\ feat_slice' = NoFeaturesGT)]_vars

\* The Strategic/Tactical allocator has returned for an empty window, after
\* the Dip-Boost allocator did.
C14_Witness ==
    /\ gpc = "returned"
    /\ entry = "compute_weights"
    /\ gt_window.PriceUSD = <<>>
    /\ gt_weights = EmptySeries
    /\ memo.who = "dip_boost"
    /\ memo.window.PriceUSD = <<>>
    /\ memo.weights = EmptySeries

\* C15: a call of the Strategic/Tactical allocator on a window of N >= 1
\* days returns 1/N on each of the N dates of the window, in one step, when
\* N < 50 and when the features cannot be built (the error does not reach
\* the caller); a window of 50 days with prices goes on to the features.
C15_Fallback ==
    [][(gpc = "loaded" /\ GTDaysOf >= 1) =>
          IF GTDaysOf < MinHistory \/ ~HasPrice(gt_window)
          THEN /\ gpc' = "returned"
               /\ gt_weights' =
                     [index |-> gt_window.index,
                      values |-> [i \in DOMAIN gt_window.index |-> Q(1, GTDaysOf)]]
          ELSE /\ gpc' = "features"
               /\ feat_slice'.index = gt_window.index]_vars

\* The allocator has returned the uniform weights for a window of 50 days
\* whose frame has no PriceUSD column.
C15_Witness ==
    /\ gpc = "returned"
    /\ entry = "compute_weights"
    /\ ~HasPrice(gt_window)
    /\ GTDaysOf = MinHistory
    /\ gt_weights.values[MinHistory - 1] = Q(1, MinHistory)

\* C16: the Series either allocator returns for a window of N >= 1 days
\* (the uniform fallback included) has the window's dates as its index, in the
\* window's order, and one weight for each of them.
C16_OutputShape ==
    /\ (pc = "returned" /\ Len0(df_window.index) >= 1) =>
           /\ weights.index = df_window.index
           /\ DOMAIN weights.values = DOMAIN df_window.index
    /\ (gpc = "returned" /\ entry = "compute_weights" /\ GTDaysOf >= 1) =>
           /\ gt_weights.index = gt_window.index
           /\ DOMAIN gt_weights.values = DOMAIN gt_window.index

\* The Strategic/Tactical allocator has returned for a window of at least 50
\* days that starts on date 1, after a run of the Dip-Boost allocator on a
\* window that starts on date 1.
C16_Witness ==
    /\ gpc = "returned"
    /\ GTDaysOf >= MinHistory
    /\ gt_window.index[0] = 1
    /\ gt_weights.index[MinHistory - 1] = MinHistory
    /\ memo.who = "dip_boost"
    /\ Len0(memo.window.index) >= 1
    /\ memo.weights.index[0] = 1

(***************************************************************************)
(* Claims about the features, under SpecSession.                           *)
(***************************************************************************)
\* Frames a and b have the same dates and the same prices on the days before
\* day t.
AgreeBefore(a, b, t) ==
    /\ a.index = b.index
    /\ \A i \in 0 .. (t - 1) : a.PriceUSD[i] = b.PriceUSD[i]

\* C17: the features of a run and those of the kept run, on windows of the
\* same dates: on every day t before which the two windows have the same
\* prices, whatever the prices on t and after it, ma200 and std200 (Dip-Boost)
\* and the five z-scores (Strategic/Tactical) are the same.
C17_FeatureCausality ==
    /\ (pc \in {"loop", "returned"} /\ memo.who = "dip_boost") =>
           \A t \in DOMAIN features.ma200 :
               AgreeBefore(memo.window, df_window, t) =>
                   /\ features.ma200[t] = memo.features.ma200[t]
                   /\ features.std200[t] = memo.features.std200[t]
    /\ (gpc \in {"features", "base", "raw", "drain", "returned"} /\ memo.who = "gt"
            /\ GTDaysOf >= MinHistory) =>
           \A t \in DOMAIN feat_slice.z :
               AgreeBefore(memo.window, gt_window, t) =>
                   feat_slice.z[t] = memo.features.z[t]

\* A Strategic/Tactical run on a window that differs from the kept run's on
\* day 20 only: the features of day 20 are those of the kept run, the
\* features of day 21 are not.
C17_Witness ==
    /\ gpc = "features"
    /\ memo.who = "gt"
    /\ GTDaysOf >= MinHistory
    /\ AgreeBefore(memo.window, gt_window, 20)
    /\ memo.window.PriceUSD[20] # gt_window.PriceUSD[20]
    /\ feat_slice.z[20] = memo.features.z[20]
    /\ feat_slice.z[21] # memo.features.z[21]

(***************************************************************************)
(* Claims about the strategic layer, under SpecGT.                         *)
(***************************************************************************)
\* The features with every row after the first blanked.
FirstDayOnly(f) ==
    [f EXCEPT !.z = [t \in DOMAIN f.z |->
                        IF t = 0 THEN f.z[0] ELSE [j \in DOMAIN f.z[t] |-> Zero]]]

\* C18: the step that sets the mixture sets it to what the first day's
\* feature row alone gives: three positive components that sum to 1, from
\* which the baseline of every day of the window is built; no later step of
\* the call changes it.
C18_StrategicMix ==
    [][/\ gpc = "features" =>
              /\ gpc' = "base"
              /\ mix' = mix_of(G, FirstDayOnly(feat_slice))
              /\ DOMAIN mix' = 0 .. 2
              /\ \A k \in DOMAIN mix' : mix'[k].n > 0 /\ mix'[k].d > 0
              /\ RSum(mix') = One
              /\ base_alloc' = beta_mix_pdf(G, Len0(feat_slice.index), mix')
       /\ (gpc \in {"base", "raw", "drain"} /\ entry = "compute_weights") =>
              mix' = mix]_vars

\* A call on a window of at least 50 days whose later feature rows are not
\* all zero has returned, its mixture set.
C18_Witness ==
    /\ gpc = "returned"
    /\ entry = "compute_weights"
    /\ GTDaysOf >= MinHistory
    /\ DOMAIN mix = 0 .. 2
    /\ RSum(mix) = One
    /\ \E t \in DOMAIN feat_slice.z : \E j \in DOMAIN feat_slice.z[t] :
           feat_slice.z[t][j] # Zero

(***************************************************************************)
(* Claims about one iteration of the Dip-Boost day loop, under Spec.       *)
(***************************************************************************)
\* The step is the iteration of the day loop for day day_idx.
IterationStep == pc = "loop" /\ day_idx < total_days /\ day_idx' = day_idx + 1

\* The days max(N - h, d + 1) .. N - 1, for h = max(N div 2, 1).
HorizonAfter(N, day) == Max(N - Max(N \div 2, 1), day + 1) .. (N - 1)

\* The iteration has a signal (its day is not skipped at line 107) and the
\* boost cannot be funded: there is no target, or some target less the
\* reduction would be below MIN_WEIGHT.
CannotFund ==
    /\ ~NoSignal(features, day_idx)
    /\ LET tw == temp_weights
           z_score == z_score_of(features, day_idx)
           excess == RMul(tw[day_idx], RMul(boost_alpha, z_score))
           targets == HorizonAfter(total_days, day_idx)
       IN  \/ targets = {}
           \/ \E j \in targets :
                 RLess(RSub(tw[j], RDiv(excess, RInt(Cardinality(targets)))), MIN_WEIGHT)

\* C19: an iteration of the day loop whose boost cannot be funded (no
\* target, or a target that would fall below MIN_WEIGHT) changes no entry
\* of the weight buffer.
C19_SkipAllOrNothing ==
    [][(IterationStep /\ CannotFund) =>
          /\ temp_weights' = temp_weights
          /\ branch' \in {"no_targets", "floor"}]_vars

\* An iteration has just skipped the boost of the last day of the window,
\* which has a signal and no target, with the buffer as the earlier
\* iterations left it.
C19_Witness ==
    /\ pc = "loop"
    /\ branch = "no_targets"
    /\ day_idx = total_days
    /\ total_days >= 3
    /\ RSum(temp_weights) = One

\* C20: an iteration that commits a boost for day d raises the weight of day
\* d, lowers the weights of the days max(N - h, d + 1) .. N - 1, and leaves
\* every other weight as it was: those of the days before d and of the days
\* after d that lie before N - h.  In every iteration the target set is empty
\* exactly when d = N - 1.
C20_FundingFrame ==
    [][IterationStep =>
          /\ (redistribution_indices_of(total_days, day_idx) = {}) =
                (day_idx = total_days - 1)
          /\ branch' = "commit" =>
                \A j \in DOMAIN temp_weights :
                    IF j = day_idx
                    THEN RLess(temp_weights[j], temp_weights'[j])
                    ELSE IF j \in HorizonAfter(total_days, day_idx)
                    THEN RLess(temp_weights'[j], temp_weights[j])
                    ELSE temp_weights'[j] = temp_weights[j]]_vars

\* A boost has just been committed for day 10 of a window of 30 days: the
\* days between it and day 15 kept their weights, day 15 was lowered.
C20_Witness ==
    /\ pc = "loop"
    /\ branch = "commit"
    /\ total_days = 30
    /\ day_idx = 11
    /\ temp_weights[12] = Q(1, 30)
    /\ RLess(temp_weights[15], Q(1, 30))

\* C21: an iteration that commits a boost for day d, with w the weight day d
\* has when the iteration starts, z the z-score of line 112 and k the number
\* of targets: day d's weight becomes w * (1 + alpha * z), and every target
\* loses (w * alpha * z) / k from the weight it has.
C21_CommitArithmetic ==
    [][(IterationStep /\ branch' = "commit") =>
          LET w == temp_weights[day_idx]
              z == z_score_of(features, day_idx)
              targets == HorizonAfter(total_days, day_idx)
              loss == RDiv(RMul(w, RMul(boost_alpha, z)), RInt(Cardinality(targets)))
          IN  /\ temp_weights'[day_idx] = RMul(w, RAdd(One, RMul(boost_alpha, z)))
              /\ \A j \in targets : temp_weights'[j] = RSub(temp_weights[j], loss)]_vars

\* In a window of 5 days a boost has just been committed for day 3, whose
\* weight the boost committed for day 2 had reduced; the last day has paid
\* for both.
C21_Witness ==
    /\ pc = "loop"
    /\ branch = "commit"
    /\ total_days = 5
    /\ day_idx = 4
    /\ RLess(Q(1, 5), temp_weights[2])
    /\ temp_weights[3] # Q(1, 5)
    /\ RLess(temp_weights[4], Q(1, 5))

\* The day of the iteration has a signal: its lagged mean and deviation are
\* defined, the deviation is > 0, and its price is below the mean.
Eligible ==
    /\ ~IsNaN(features.ma200[day_idx])
    /\ ~IsNaN(features.std200[day_idx])
    /\ RLess(Zero, features.std200[day_idx])
    /\ RLess(RInt(features.PriceUSD[day_idx]), features.ma200[day_idx])

\* C22: an iteration raises no weight but that of its own day, and that only
\* if the day has a signal; an iteration for a day without a signal changes
\* no weight.
C22_Eligibility ==
    [][IterationStep =>
          /\ \A j \in DOMAIN temp_weights :
                 RLess(temp_weights[j], temp_weights'[j]) => (j = day_idx /\ Eligible)
          /\ ~Eligible => temp_weights' = temp_weights]_vars

\* An iteration has just passed over a day whose price is above its trend,
\* the deviation being defined and > 0, after a boost was committed.
C22_Witness ==
    /\ pc = "loop"
    /\ branch = "no_signal"
    /\ day_idx >= 4
    /\ RLess(Zero, features.std200[day_idx - 1])
    /\ RLess(features.ma200[day_idx - 1], RInt(features.PriceUSD[day_idx - 1]))
    /\ \E j \in DOMAIN temp_weights : RLess(Q(1, total_days), temp_weights[j])

\* C28: in every window the mean is undefined on day 0 and the deviation on
\* days 0 and 1, and the iterations for days 0 and 1 change no weight,
\* whatever the prices and alpha.
C28_FirstTwoDays ==
    [][(IterationStep /\ day_idx <= 1) =>
          /\ IsNaN(features.std200[day_idx])
          /\ day_idx = 0 => IsNaN(features.ma200[day_idx])
          /\ day_idx = 1 => features.ma200[1] = RInt(features.PriceUSD[0])
          /\ branch' = "no_signal"
          /\ temp_weights' = temp_weights]_vars

\* The iteration for day 1 has just passed over a day whose price is below
\* the price of day 0.
C28_Witness ==
    /\ pc = "loop"
    /\ day_idx = 2
    /\ total_days >= 3
    /\ features.PriceUSD[1] < features.PriceUSD[0]
    /\ temp_weights[1] = Q(1, total_days)

\* C29: an iteration of the day loop changes the weight of no day before its
\* own, and the pass returns the buffer as the last iteration left it: the
\* weight a day has after its own iteration is the weight returned for it.
C29_Finality ==
    [][/\ IterationStep =>
              \A j \in 0 .. (day_idx - 1) : temp_weights'[j] = temp_weights[j]
       /\ (pc = "loop" /\ pc' = "returned") => weights'.values = temp_weights]_vars

\* A call has returned with boosts committed for day 2 and then for day 3:
\* the weights returned for both are above 1/N.
C29_Witness ==
    /\ pc = "returned"
    /\ total_days = 5
    /\ RLess(Q(1, 5), weights.values[2])
    /\ RLess(Q(1, 5), weights.values[3])

(***************************************************************************)
(* Claims about the sequential drain, under SpecGT.                        *)
(***************************************************************************)
DrainDays == Len0(drain.baseline)

\* 1 - N * MIN_WEIGHT for the vector being drained.
Budget == RSub(One, RMul(G.MIN_WEIGHT, RInt(DrainDays)))

\* C23: allocate_sequential on a raw vector whose entries are all <= 0: the
\* baseline is that of a vector of ones, the mass divided by is not 0 at any
\* day of the loop, and 1/N is returned for every day.
C23_DegenerateRaw ==
    (gpc \in {"drain", "returned"} /\ entry = "allocate_sequential"
        /\ \A i \in DOMAIN raw_weights : raw_weights[i].n <= 0) =>
        /\ \A i \in DOMAIN drain.baseline : drain.baseline[i] = Q(1, DrainDays)
        /\ (gpc = "drain" /\ d < DrainDays) => RLess(Zero, drain.rem_raw)
        /\ gpc = "returned" =>
               \A i \in DOMAIN gt_weights.values : gt_weights.values[i] = Q(1, DrainDays)

\* allocate_sequential has returned for a vector of three entries, all <= 0,
\* a negative one and a zero among them.
C23_Witness ==
    /\ gpc = "returned"
    /\ entry = "allocate_sequential"
    /\ Len0(raw_weights) = 3
    /\ \A i \in DOMAIN raw_weights : raw_weights[i].n <= 0
    /\ \E i, j \in DOMAIN raw_weights : raw_weights[i].n < 0 /\ raw_weights[j] = Zero
    /\ gt_weights.values[2] = Q(1, 3)

\* C24: the drain takes the days in index order; the step for day d gives
\* day d, which holds MIN_WEIGHT, the share (p[d] / mass) * budget of the
\* mass and budget remaining at that step (nothing when no mass remains),
\* takes the share from the budget and p[d] from the mass, and leaves the
\* weight of every other day as it is; the weights returned are those the
\* steps left.
C24_DrainSteps ==
    [][/\ (gpc = "drain" /\ d < DrainDays) =>
              LET share == IF drain.rem_raw = Zero THEN Zero
                           ELSE RDiv(RMul(drain.baseline[d], drain.rem), drain.rem_raw)
              IN  /\ d' = d + 1
                  /\ drain.w[d] = G.MIN_WEIGHT
                  /\ drain'.w[d] = RAdd(G.MIN_WEIGHT, share)
                  /\ \A j \in DOMAIN drain.w : j # d => drain'.w[j] = drain.w[j]
                  /\ drain'.rem = RSub(drain.rem, share)
                  /\ drain'.rem_raw = RSub(drain.rem_raw, drain.baseline[d])
                  /\ drain'.baseline = drain.baseline
       /\ (gpc = "drain" /\ gpc' = "returned") => gt_weights'.values = drain.w]_vars

\* Two days of a vector of three have been drained, the first of them with
\* a share; the third still holds MIN_WEIGHT, and mass remains for it.
C24_Witness ==
    /\ gpc = "drain"
    /\ entry = "allocate_sequential"
    /\ DrainDays = 3
    /\ d = 2
    /\ RLess(G.MIN_WEIGHT, drain.w[0])
    /\ drain.w[2] = G.MIN_WEIGHT
    /\ RLess(Zero, drain.rem_raw)

\* C26: for a raw vector with no negative entry and a positive sum, the
\* remaining budget over the remaining mass is 1 - N * MIN_WEIGHT at every
\* step of the drain at which mass remains, and the weight returned for day
\* i is MIN_WEIGHT + (raw[i] / sum(raw)) * (1 - N * MIN_WEIGHT).
C26_DrainIsProportional ==
    (/\ gpc \in {"drain", "returned"}
     /\ \A i \in DOMAIN raw_weights : raw_weights[i].n >= 0
     /\ RLess(Zero, RSum(raw_weights))) =>
        /\ (gpc = "drain" /\ drain.rem_raw # Zero) =>
               RDiv(drain.rem, drain.rem_raw) = Budget
        /\ gpc = "returned" =>
               \A i \in DOMAIN gt_weights.values :
                   gt_weights.values[i] =
                       RAdd(G.MIN_WEIGHT,
                            RMul(RDiv(raw_weights[i], RSum(raw_weights)), Budget))

\* allocate_sequential has returned for the raw vector (1, 3, 0).
C26_Witness ==
    /\ gpc = "returned"
    /\ entry = "allocate_sequential"
    /\ Len0(raw_weights) = 3
    /\ raw_weights[0] = One
    /\ raw_weights[1] = RInt(3)
    /\ raw_weights[2] = Zero
    /\ gt_weights.values[1] = RAdd(G.MIN_WEIGHT, RMul(Q(3, 4), Budget))

(***************************************************************************)
(* Claims about the Strategic/Tactical features, under SpecGT.             *)
(***************************************************************************)
\* The rows of the window that the z-score of length win, lagged to row t,
\* is taken over: the last win rows up to t - 1.
LaggedRows(win, t) == Max(0, t - win) .. (t - 1)

\* C25: when the features of a window have been built, every one of the
\* five features of every row is a number in
\* [-4, 4]; it is 0 in the first row, 0 when the rows it is taken over are
\* fewer than half its window length, and 0 when the prices of those rows are
\* all the same (zero deviation).
C25_FeatureBounds ==
    gpc = "features" =>
        \A t \in DOMAIN feat_slice.z : \A j \in DOMAIN feat_slice.z[t] :
            LET z == feat_slice.z[t][j]
                win == G.WINDOWS[j + 1]
                rows == LaggedRows(win, t)
            IN  /\ DOMAIN feat_slice.z[t] = 0 .. 4
                /\ ~IsNaN(z)
                /\ RLeq(RInt(-4), z)
                /\ RLeq(z, RInt(4))
                /\ t = 0 => z = Zero
                /\ Cardinality(rows) < win \div 2 => z = Zero
                /\ (\A a, b \in rows : gt_window.PriceUSD[a] = gt_window.PriceUSD[b]) =>
                       z = Zero

\* The features of a window of at least 50 days have been built: in the row
\* after a doubled price the 30-day feature is at the upper clip, and the
\* 180-day feature, with too few rows, is 0.
C25_Witness ==
    /\ gpc = "features"
    /\ GTDaysOf >= MinHistory
    /\ feat_slice.z[21][0] = RInt(4)
    /\ feat_slice.z[21][2] = Zero
    /\ feat_slice.z[20][0] = Zero

\* The softmax of the bias column of alpha = THETA[:18].reshape(3, 6).
BiasMix == softmax([r \in 0 .. 2 |-> Q(G.THETA[6 * r + 1], ThetaUnit)])

\* C27: in every call that gets past the fallbacks (a window of at least 50
\* days) the feature row of the first day is all zeros, and the mixture is
\* the softmax of the bias column of the strategic matrix, whatever the
\* prices.
C27_ConstantMix ==
    (gpc \in {"base", "raw", "drain", "returned"} /\ entry = "compute_weights"
        /\ feat_slice # NoFeaturesGT) =>
        /\ GTDaysOf >= MinHistory
        /\ \A j \in DOMAIN feat_slice.z[0] : feat_slice.z[0][j] = Zero
        /\ mix = BiasMix

\* A call on a window of at least 50 days at the higher price level, doubled
\* on days 20 and 40, has its mixture: the first prototype weighs most.
C27_Witness ==
    /\ gpc = "base"
    /\ GTDaysOf >= MinHistory
    /\ gt_window.PriceUSD[0] = 2
    /\ gt_window.PriceUSD[20] = 4
    /\ gt_window.PriceUSD[40] = 4
    /\ mix = BiasMix
    /\ RLess(mix[1], mix[0])
    /\ RLess(mix[2], mix[1])

(***************************************************************************)
(* Claims about simulate_accumulation, under SpecSim.                      *)
(***************************************************************************)
\* C30: the frame returned has min(current_day + 1, N) rows; on every row
\* made, Total_Spent + Remaining_Budget is the budget times the sum of all
\* the weights, and Total_Spent is not below that of the row before; when the
\* weights sum to 1, Total_Spent is not above the budget.
C30_SimulationAccounting ==
    LET N == Len0(sim_args.df_window.index)
        all == RSum(sim_args.weights.values)
    IN  /\ spc = "returned" => Len(sim_results) = Min(sim_args.current_day + 1, N)
        /\ \A k \in DOMAIN sim_results :
               /\ RAdd(sim_results[k].Total_Spent, sim_results[k].Remaining_Budget) =
                      RMul(sim_args.budget, all)
               /\ k > 1 => RLeq(sim_results[k - 1].Total_Spent, sim_results[k].Total_Spent)
               /\ all = One => RLeq(sim_results[k].Total_Spent, sim_args.budget)

\* The call has returned two rows of a window of three days whose weights
\* sum to 1: part of the budget is spent, part remains.
C30_Witness ==
    /\ spc = "returned"
    /\ Len0(sim_args.df_window.index) = 3
    /\ sim_args.current_day = 1
    /\ Len(sim_results) = 2
    /\ RSum(sim_args.weights.values) = One
    /\ RLess(sim_results[1].Total_Spent, sim_results[2].Total_Spent)
    /\ RLess(Zero, sim_results[2].Remaining_Budget)

=============================================================================
